---- MODULE Spec2Model ----
(***************************************************************************)
(* Model of src/v1.py: the multi-interval dashboard loop.                  *)
(*                                                                         *)
(* One pass of the `while True` loop is: open the placeholder container,   *)
(* fetch the four interval frames, evaluate and emit each interval in      *)
(* turn, draw the 5m chart, show the 1m table, sleep 60 seconds.           *)
(*                                                                         *)
(* Numbers.  pandas computes in float64; the model computes the same       *)
(* expressions exactly.  A percent change is a reduced fraction, or NaN    *)
(* (0/0, or the first row), or Inf (x/0 with x > 0).  An EMA value is a    *)
(* fraction N/D of arbitrary-size naturals (sequences of base-10000        *)
(* digits, least significant first), since 22^12 does not fit a machine    *)
(* integer of the checker.                                                 *)
(***************************************************************************)
EXTENDS Integers, Sequences, FiniteSets, TLC

\* ------------------------------------------------------------------------
\* Bounds of the model
\* ------------------------------------------------------------------------

\* Longest frame the data source returns in the wide-input specification.
MaxBars == 13

\* Longest 5m frame of the chart specification.
MaxChartBars == 3

\* Passes of the main loop that are explored.
MaxPasses == 2

\* ------------------------------------------------------------------------
\* Program constants
\* ------------------------------------------------------------------------

\* `if len(df) < 12`
MinBars == 12

\* `.iloc[-11:-1]`: the slice starts 11 rows before the end ...
SliceStart == 11

\* ... and stops 1 row before the end.
SliceStop == 1

\* `metrics['avg_p_chg'] * 2`
Multiplier == 2

\* `time.sleep(60)`
TickDelay == 60

\* intervals = ["1m", "5m", "15m", "30m"]
intervals == <<"1m", "5m", "15m", "30m">>

Intervals == {intervals[k] : k \in 1..Len(intervals)}

\* Slider values explored: ema_fast in 5..20, ema_slow in 21..50.
FastPeriods == {5, 9}

SlowPeriods == {21}

\* ------------------------------------------------------------------------
\* Exact arithmetic
\* ------------------------------------------------------------------------

Abs(x) == IF x < 0 THEN -x ELSE x

Max(a, b) == IF a > b THEN a ELSE b

RECURSIVE GCD(_, _)
GCD(a, b) == IF b = 0 THEN a ELSE GCD(b, a % b)

\* float values that occur in a percent-change column
NaN == [k |-> "nan", n |-> 0, d |-> 1]

Inf == [k |-> "inf", n |-> 0, d |-> 1]

Num(n, d) ==
    LET g == GCD(Abs(n), d)
    IN  [k |-> "num", n |-> n \div g, d |-> d \div g]

\* a + b
FAdd(a, b) ==
    IF a.k = "nan" \/ b.k = "nan" THEN NaN
    ELSE IF a.k = "inf" \/ b.k = "inf" THEN Inf
    ELSE Num(a.n * b.d + b.n * a.d, a.d * b.d)

\* abs(a)
FAbs(a) == IF a.k = "num" THEN [a EXCEPT !.n = Abs(a.n)] ELSE a

\* a * m, for an integer m > 0
FScale(a, m) == IF a.k = "num" THEN Num(a.n * m, a.d) ELSE a

\* a / m, for an integer m > 0
FDiv(a, m) == IF a.k = "num" THEN Num(a.n, a.d * m) ELSE a

\* a > b as float comparison: False whenever a NaN is involved
FGreater(a, b) ==
    IF a.k = "nan" \/ b.k = "nan" THEN FALSE
    ELSE IF a.k = "inf" THEN b.k # "inf"
    ELSE IF b.k = "inf" THEN FALSE
    ELSE a.n * b.d > b.n * a.d

\* Naturals of any size: base-10000 digits, least significant first, no
\* leading zero digit; zero is the empty sequence.
RECURSIVE BigOfInt(_)
BigOfInt(n) == IF n = 0 THEN <<>> ELSE <<n % 10000>> \o BigOfInt(n \div 10000)

RECURSIVE BigAddC(_, _, _)
BigAddC(a, b, c) ==
    IF a = <<>> /\ b = <<>> THEN BigOfInt(c)
    ELSE LET x == IF a = <<>> THEN 0 ELSE Head(a)
             y == IF b = <<>> THEN 0 ELSE Head(b)
             s == x + y + c
         IN  <<s % 10000>> \o BigAddC(IF a = <<>> THEN <<>> ELSE Tail(a),
                                      IF b = <<>> THEN <<>> ELSE Tail(b),
                                      s \div 10000)

BigAdd(a, b) == BigAddC(a, b, 0)

RECURSIVE BigMulSmallC(_, _, _)
BigMulSmallC(a, m, c) ==
    IF a = <<>> THEN BigOfInt(c)
    ELSE LET s == Head(a) * m + c
         IN  <<s % 10000>> \o BigMulSmallC(Tail(a), m, s \div 10000)

\* a * m for a machine integer 0 <= m < 100000
BigMulSmall(a, m) == IF m = 0 THEN <<>> ELSE BigMulSmallC(a, m, 0)

BigShift(a) == IF a = <<>> THEN <<>> ELSE <<0>> \o a

RECURSIVE BigMul(_, _)
BigMul(a, b) ==
    IF b = <<>> THEN <<>>
    ELSE BigAdd(BigMulSmall(a, Head(b)), BigShift(BigMul(a, Tail(b))))

RECURSIVE BigLess(_, _)
BigLess(a, b) ==
    IF Len(a) # Len(b) THEN Len(a) < Len(b)
    ELSE IF a = <<>> THEN FALSE
    ELSE LET k == Len(a)
         IN  IF a[k] # b[k] THEN a[k] < b[k]
             ELSE BigLess(SubSeq(a, 1, k - 1), SubSeq(b, 1, k - 1))

\* EMA values are fractions N/D of such naturals, D > 0.
EmaVal(N, D) == [N |-> N, D |-> D]

EmaEq(u, v) == BigMul(u.N, v.D) = BigMul(v.N, u.D)

EmaGreater(u, v) == BigLess(BigMul(v.N, u.D), BigMul(u.N, v.D))

\* ------------------------------------------------------------------------
\* Frames and the pandas operations the program uses
\* ------------------------------------------------------------------------

\* A DataFrame as yf.download returns it: the OHLCV columns, of which the
\* program reads Close and Volume.  cols names the columns added since; a
\* column that is not there holds <<>>.
Frame(close, volume) ==
    [Close |-> close, Volume |-> volume, cols |-> {},
     Price_Chg |-> <<>>, Vol_Chg |-> <<>>, EMA_F |-> <<>>, EMA_S |-> <<>>]

EmptyFrame == Frame(<<>>, <<>>)

\* len(df)
len(df) == Len(df.Close)

\* s.pct_change() * 100: row i is (s[i] / s[i-1] - 1) * 100, the first row NaN
pct_change(s) ==
    [i \in 1..Len(s) |->
        IF i = 1 THEN NaN
        ELSE IF s[i - 1] = 0 THEN (IF s[i] = 0 THEN NaN ELSE Inf)
        ELSE Num(100 * (s[i] - s[i - 1]), s[i - 1])]

\* s.iloc[-a:-b], in 1-based positions: rows max(1, n-a+1) .. n-b
iloc_slice(s, a, b) == SubSeq(s, Max(1, Len(s) - a + 1), Len(s) - b)

\* the rows the baseline is taken over: s.iloc[-11:-1]
Window(s) == iloc_slice(s, SliceStart, SliceStop)

\* s.iloc[-1]
iloc_last(s) == s[Len(s)]

RECURSIVE SumSeq(_)
SumSeq(s) == IF s = <<>> THEN Num(0, 1) ELSE FAdd(Head(s), SumSeq(Tail(s)))

SkipNaN(s) == SelectSeq(s, LAMBDA v : v.k # "nan")

\* s.abs().mean(): NaN rows are skipped; NaN when none is left
abs_mean(s) ==
    LET kept == SkipNaN([i \in 1..Len(s) |-> FAbs(s[i])])
    IN  IF kept = <<>> THEN NaN ELSE FDiv(SumSeq(kept), Len(kept))

RECURSIVE EwmFrom(_, _, _, _, _, _)
\* Rows i.. of the adjusted EWM, after row i-1 gave N/D with P = (span+1)^(i-2).
\* This is pandas' loop  old_wt *= 1 - alpha;
\*                       weighted = (old_wt * weighted + cur) / (old_wt + 1);
\*                       old_wt += 1
\* with alpha = 2/(span+1), weighted = N/D and old_wt = D/P.
EwmFrom(x, i, N, D, P, span) ==
    IF i > Len(x) THEN <<>>
    ELSE LET P2 == BigMulSmall(P, span + 1)
             N2 == BigAdd(BigMulSmall(N, span - 1), BigMulSmall(P2, x[i]))
             D2 == BigAdd(BigMulSmall(D, span - 1), P2)
         IN  <<EmaVal(N2, D2)>> \o EwmFrom(x, i + 1, N2, D2, P2, span)

\* s.ewm(span=span).mean()   (adjust=True, the default)
ewm_mean(x, span) ==
    IF x = <<>> THEN <<>>
    ELSE <<EmaVal(BigOfInt(x[1]), BigOfInt(1))>>
         \o EwmFrom(x, 2, BigOfInt(x[1]), BigOfInt(1), BigOfInt(1), span)

\* ------------------------------------------------------------------------
\* calculate_metrics and the status line
\* ------------------------------------------------------------------------

\* What calculate_metrics returns: None, or the dict of line 52.
None ==
    [is_none |-> TRUE, curr_p_chg |-> NaN, curr_v_chg |-> NaN,
     avg_p_chg |-> NaN, avg_v_chg |-> NaN, last_close |-> 0, trend |-> "None"]

\* `if len(df) < 12` taken as `if len(df) < 11`
TooShortOffByOne(df) == len(df) < MinBars - 1

\* `if len(df) < 12`
TooShort(df) == len(df) < MinBars

\* "Bull" if fast >= slow else "Bear"
TrendNonStrict(fast, slow) ==
    IF EmaGreater(fast, slow) \/ EmaEq(fast, slow) THEN "Bull" ELSE "Bear"

\* "Bull" if df['EMA_F'].iloc[-1] > df['EMA_S'].iloc[-1] else "Bear"
Trend(fast, slow) == IF EmaGreater(fast, slow) THEN "Bull" ELSE "Bear"

\* df[col].iloc[-11:-1].abs().mean()
Baseline(chg) == abs_mean(Window(chg))

\* df['Close'].ewm(span=span).mean()
EmaColumn(close, span) == ewm_mean(close, span)

\* df['Price_Chg'] = ...; df['Vol_Chg'] = ...   (in place, on the caller's
\* frame)
AddChangeColumns(df) ==
    [df EXCEPT !.Price_Chg = pct_change(df.Close),
               !.Vol_Chg = pct_change(df.Volume),
               !.cols = @ \cup {"Price_Chg", "Vol_Chg"}]

\* The call calculate_metrics(df): ret is the value returned, df the
\* caller's frame as the call leaves it.
calculate_metrics(df, fast, slow) ==
    IF TooShort(df) THEN [ret |-> None, df |-> df]
    ELSE LET df1 == AddChangeColumns(df)
             df2 == [df1 EXCEPT !.EMA_F = EmaColumn(df1.Close, fast),
                                !.EMA_S = EmaColumn(df1.Close, slow),
                                !.cols = @ \cup {"EMA_F", "EMA_S"}]
         IN  [ret |-> [is_none |-> FALSE,
                       curr_p_chg |-> iloc_last(df1.Price_Chg),
                       curr_v_chg |-> iloc_last(df1.Vol_Chg),
                       avg_p_chg |-> Baseline(df1.Price_Chg),
                       avg_v_chg |-> Baseline(df1.Vol_Chg),
                       last_close |-> iloc_last(df1.Close),
                       trend |-> Trend(iloc_last(df2.EMA_F),
                                       iloc_last(df2.EMA_S))],
              df |-> df2]

\* status = <extreme> if abs(metrics['curr_p_chg']) > metrics['avg_p_chg'] * 2
\*          else <calm>        (the two status strings: "Extreme", "Calm")
Status(m) ==
    IF FGreater(FAbs(m.curr_p_chg), FScale(m.avg_p_chg, Multiplier))
    THEN "Extreme" ELSE "Calm"

\* ------------------------------------------------------------------------
\* The frames the data source is taken to return
\* ------------------------------------------------------------------------

\* n rows: `last` in the final row; before it lo/hi alternating ("zigzag"),
\* or lo everywhere but hi in row j ("flat"; j = 0: no such row), or lo
\* everywhere but hi in rows j and j+1 ("pair").
Pattern(n, lo, hi, shape, j, last) ==
    [r \in 1..n |->
        IF r = n THEN last
        ELSE IF shape = "zigzag" THEN (IF r % 2 = 1 THEN lo ELSE hi)
        ELSE IF r = j \/ (shape = "pair" /\ r = j + 1) THEN hi ELSE lo]

\* Closing prices are positive.
Closes(n) ==
    {Pattern(n, 4, 5, "flat", j, last) : j \in 0..(n - 1), last \in {4, 5, 8}}
    \cup {Pattern(n, 4, 5, "zigzag", 0, last) : last \in {4, 5, 8}}

\* Volumes may be zero (a bar in which nothing traded).
Volumes(n) ==
    {Pattern(n, lh[1], lh[2], "flat", j, last) :
        lh \in {<<1, 2>>, <<0, 1>>}, j \in {0, n - 1}, last \in {0, 1, 2}}
    \cup {Pattern(n, 1, 0, "pair", n - 2, last) : last \in {0, 1, 2}}

WideFrames ==
    UNION {{Frame(c, v) : c \in Closes(n), v \in Volumes(n)} : n \in 0..MaxBars}

ChartFrames ==
    UNION {{Frame(c, [r \in 1..n |-> 1]) : c \in [1..n -> {4, 5, 8}]} :
           n \in 0..MaxChartBars}

\* a 12-row frame whose last bar jumps after a flat stretch
GoodFrame == Frame(Pattern(MinBars, 4, 5, "flat", 0, 5),
                   Pattern(MinBars, 1, 2, "flat", 0, 1))

\* What one yf.download call does: it returns a frame (an empty one when the
\* library swallowed a failed download), or it raises.
Got(df) == [raised |-> FALSE, data |-> df]

Raise == [raised |-> TRUE, data |-> EmptyFrame]

\* pass latencies (seconds spent in the downloads)
Durations == {5, 60, 75}

MainOutcomes == [Intervals -> {Raise, Got(EmptyFrame), Got(GoodFrame)}]

\* Every wide frame as the 1m or as the 5m frame, the other intervals empty.
WideOutcomes ==
    {[x \in Intervals |-> IF x = inter THEN Got(df) ELSE Got(EmptyFrame)] :
        inter \in {"1m", "5m"}, df \in WideFrames}

\* Every short frame as the 5m frame, the other intervals empty.
ChartOutcomes ==
    {[x \in Intervals |-> IF x = "5m" THEN Got(df) ELSE Got(EmptyFrame)] :
        df \in ChartFrames}

\* ------------------------------------------------------------------------
\* State
\* ------------------------------------------------------------------------

VARIABLES
    pc,         \* where the script is: "container", "fetch", "eval", "chart",
                \* "table", "sleep", or "crashed" (an uncaught exception)
    ema_fast,   \* sidebar slider
    ema_slow,   \* sidebar slider
    all_data,   \* all_data[inter]: the frame of each interval, this pass
    i,          \* iterations of `for i, inter in enumerate(intervals)` done
    metrics,    \* the value of the last calculate_metrics call
    status,     \* the last status string
    screen,     \* what the placeholder shows for each interval column
    chart,      \* the EMA trace of the 5m chart
    table,      \* the 1m raw-data table
    passNo,     \* number of the current pass of `while True`
    elapsed,    \* seconds since this pass was started
    dur,        \* history: seconds the previous pass took up to its sleep
    gap,        \* history: seconds from the previous pass's start to this one's
    fetched,    \* history: the frames as fetch_multi_data returned them
    failed      \* history: intervals whose download failed this pass

vars == <<pc, ema_fast, ema_slow, all_data, i, metrics, status, screen, chart,
          table, passNo, elapsed, dur, gap, fetched, failed>>

NoCell == [pass |-> 0, kind |-> "none", status |-> "none"]

NoChart == [pass |-> 0, ema |-> <<>>]

NoTable == [pass |-> 0, cols |-> {}, rows |-> 0]

Init ==
    /\ pc = "container"
    /\ ema_fast \in FastPeriods
    /\ ema_slow \in SlowPeriods
    /\ all_data = [inter \in Intervals |-> EmptyFrame]
    /\ i = 0
    /\ metrics = None
    /\ status = "none"
    /\ screen = [inter \in Intervals |-> NoCell]
    /\ chart = NoChart
    /\ table = NoTable
    /\ passNo = 1
    /\ elapsed = 0
    /\ dur = 0
    /\ gap = 0
    /\ fetched = [inter \in Intervals |-> EmptyFrame]
    /\ failed = {}

\* ------------------------------------------------------------------------
\* The main loop
\* ------------------------------------------------------------------------

\* `with placeholder.container():` a new container takes the placeholder's
\* place.  Depending on the streamlit version the front end drops what the
\* old container showed or keeps it until each element is written again.
EnterContainer ==
    /\ pc = "container"
    /\ \E keep \in BOOLEAN :
          /\ screen' = IF keep THEN screen ELSE [inter \in Intervals |-> NoCell]
          /\ chart' = IF keep THEN chart ELSE NoChart
          /\ table' = IF keep THEN table ELSE NoTable
    /\ pc' = "fetch"
    /\ failed' = {}
    /\ UNCHANGED <<ema_fast, ema_slow, all_data, i, metrics, status, passNo,
                   elapsed, dur, gap, fetched>>

\* all_data = fetch_multi_data(symbol): the four downloads in turn.  Nothing
\* catches an exception of yf.download: it leaves fetch_multi_data, the with
\* block and the loop, and the script ends.
Fetch(Outcomes, Latencies) ==
    /\ pc = "fetch"
    /\ \E o \in Outcomes, d \in Latencies :
          LET raisedAt == {k \in 1..Len(intervals) : o[intervals[k]].raised}
              first == CHOOSE k \in raisedAt : \A m \in raisedAt : k <= m
              got == [inter \in Intervals |-> o[inter].data]
          IN  /\ elapsed' = elapsed + d
              /\ IF raisedAt # {}
                 THEN /\ pc' = "crashed"
                      /\ failed' = {intervals[first]}
                      /\ UNCHANGED <<all_data, fetched, i>>
                 ELSE /\ pc' = "eval"
                      /\ all_data' = got
                      /\ fetched' = got
                      /\ failed' = {inter \in Intervals : len(got[inter]) = 0}
                      /\ i' = 0
    /\ UNCHANGED <<ema_fast, ema_slow, metrics, status, screen, chart, table,
                   passNo, dur, gap>>

\* One iteration of `for i, inter in enumerate(intervals)`: the call of
\* calculate_metrics and what is written into cols[i].
EvalInterval ==
    /\ pc = "eval"
    /\ \E inter \in {intervals[i + 1]} :
       \E r \in {calculate_metrics(all_data[inter], ema_fast, ema_slow)} :
           /\ all_data' = [all_data EXCEPT ![inter] = r.df]
           /\ metrics' = r.ret
           /\ status' = IF r.ret.is_none THEN status ELSE Status(r.ret)
           /\ screen' = [screen EXCEPT ![inter] =
                            IF r.ret.is_none
                            THEN [pass |-> passNo, kind |-> "loading",
                                  status |-> "none"]
                            ELSE [pass |-> passNo, kind |-> "metrics",
                                  status |-> Status(r.ret)]]
    /\ i' = i + 1
    /\ pc' = IF i + 1 = Len(intervals) THEN "chart" ELSE "eval"
    /\ UNCHANGED <<ema_fast, ema_slow, chart, table, passNo, elapsed, dur, gap,
                   fetched, failed>>

\* The 5m chart: main_df is all_data["5m"] itself, and EMA_F is written
\* into it.
Chart ==
    /\ pc = "chart"
    /\ \E main_df \in {all_data["5m"]} :
       \E ema \in {EmaColumn(main_df.Close, ema_fast)} :
           IF len(main_df) # 0
           THEN /\ all_data' = [all_data EXCEPT
                                   !["5m"].EMA_F = ema,
                                   !["5m"].cols = @ \cup {"EMA_F"}]
                /\ chart' = [pass |-> passNo, ema |-> ema]
           ELSE UNCHANGED <<all_data, chart>>
    /\ pc' = "table"
    /\ UNCHANGED <<ema_fast, ema_slow, i, metrics, status, screen, table,
                   passNo, elapsed, dur, gap, fetched, failed>>

\* st.dataframe(all_data["1m"].tail(10)) and the caption
Table ==
    /\ pc = "table"
    /\ table' = [pass |-> passNo, cols |-> all_data["1m"].cols,
                 rows |-> IF len(all_data["1m"]) < 10
                          THEN len(all_data["1m"]) ELSE 10]
    /\ pc' = "sleep"
    /\ UNCHANGED <<ema_fast, ema_slow, all_data, i, metrics, status, screen,
                   chart, passNo, elapsed, dur, gap, fetched, failed>>

\* time.sleep(60), after a pass that took d seconds
SleepTime(d) == TickDelay

\* time.sleep(60), then the next turn of `while True`
Sleep ==
    /\ pc = "sleep"
    /\ passNo < MaxPasses
    /\ dur' = elapsed
    /\ gap' = elapsed + SleepTime(elapsed)
    /\ elapsed' = 0
    /\ passNo' = passNo + 1
    /\ pc' = "container"
    /\ UNCHANGED <<ema_fast, ema_slow, all_data, i, metrics, status, screen,
                   chart, table, fetched, failed>>

Next ==
    \/ EnterContainer
    \/ Fetch(MainOutcomes, Durations)
    \/ EvalInterval
    \/ Chart
    \/ Table
    \/ Sleep

Spec == Init /\ [][Next]_vars

\* One pass over frames of every shape and length up to MaxBars.
NextWide ==
    \/ EnterContainer
    \/ Fetch(WideOutcomes, {5})
    \/ EvalInterval
    \/ Chart
    \/ Table

SpecWide == Init /\ [][NextWide]_vars

\* One pass over every short 5m frame.
NextChart ==
    \/ EnterContainer
    \/ Fetch(ChartOutcomes, {5})
    \/ EvalInterval
    \/ Chart
    \/ Table

SpecChart == Init /\ [][NextChart]_vars

\* ------------------------------------------------------------------------
\* Properties
\* ------------------------------------------------------------------------

\* The loop body has run for intervals[1..i] of the current pass; metrics
\* and status are those of intervals[i].
Evaluated == i >= 1 /\ pc \in {"eval", "chart", "table", "sleep"}

LastInter == intervals[i]

\* |current price change| > price baseline * multiplier
PriceExceeds(m) ==
    FGreater(FAbs(m.curr_p_chg), FScale(m.avg_p_chg, Multiplier))

\* |current volume change| > volume baseline * multiplier
VolumeExceeds(m) ==
    FGreater(FAbs(m.curr_v_chg), FScale(m.avg_v_chg, Multiplier))

IsZero(a) == a.k = "num" /\ a.n = 0

\* all four figures of a result are numbers (no NaN, no Inf)
AllNumbers(m) ==
    /\ m.curr_p_chg.k = "num"
    /\ m.curr_v_chg.k = "num"
    /\ m.avg_p_chg.k = "num"
    /\ m.avg_v_chg.k = "num"

C2_FailedFetchIsolated ==
    failed # {} =>
        /\ pc # "crashed"
        /\ pc = "sleep" =>
              \A inter \in Intervals :
                 /\ screen[inter].pass = passNo
                 /\ (inter \in failed) <=> (screen[inter].kind = "loading")

\* C3: an interval shown as extreme has both its price move and its volume
\* move above the baseline times the multiplier (stated for results whose
\* figures are numbers and whose baselines are not zero).
C3_ExtremeNeedsPriceAndVolume ==
    (Evaluated /\ ~metrics.is_none /\ AllNumbers(metrics)
        /\ ~IsZero(metrics.avg_p_chg) /\ ~IsZero(metrics.avg_v_chg)
        /\ screen[LastInter].status = "Extreme")
        => (PriceExceeds(metrics) /\ VolumeExceeds(metrics))

\* C4: with a zero price baseline the interval is shown as not extreme,
\* whatever the current change (stated for results whose figures are
\* numbers).
C4_ZeroBaselineNotExtreme ==
    (Evaluated /\ ~metrics.is_none /\ AllNumbers(metrics)
        /\ IsZero(metrics.avg_p_chg))
        => screen[LastInter].status = "Calm"

\* The percent change of row r >= 2 of x (1-based), as a float.
PctAt(x, r) ==
    IF x[r - 1] = 0 THEN (IF x[r] = 0 THEN NaN ELSE Inf)
    ELSE Num(100 * (x[r] - x[r - 1]), x[r - 1])

\* The arithmetic mean of the absolute percent changes of the 10 rows before
\* the last one: 0-based rows n-11 .. n-2, here rows n-10 .. n-1.
MeanOfTenBefore(x) ==
    LET n == Len(x)
    IN  FDiv(SumSeq([k \in 1..10 |-> FAbs(PctAt(x, n - 11 + k))]), 10)

\* C5: a baseline that comes out as a number is the mean of the absolute
\* percent changes of exactly the 10 bars before the last one, for price
\* and for volume; the series has at least 12 bars, so that row 0 is not
\* among them.
C5_BaselineIsMeanOfTenBefore ==
    (Evaluated /\ ~metrics.is_none) =>
        /\ len(fetched[LastInter]) >= 12
        /\ metrics.avg_p_chg.k = "num" =>
              metrics.avg_p_chg = MeanOfTenBefore(fetched[LastInter].Close)
        /\ metrics.avg_v_chg.k = "num" =>
              metrics.avg_v_chg = MeanOfTenBefore(fetched[LastInter].Volume)

\* C5, the part that holds: the price baseline is always that mean (closes
\* are positive), and so is the volume baseline when each of the 10 volume
\* changes is a number.
C5_MeanOfTenWhereDefined ==
    (Evaluated /\ ~metrics.is_none) =>
        /\ len(fetched[LastInter]) >= 12
        /\ metrics.avg_p_chg = MeanOfTenBefore(fetched[LastInter].Close)
        /\ MeanOfTenBefore(fetched[LastInter].Volume).k = "num" =>
              metrics.avg_v_chg = MeanOfTenBefore(fetched[LastInter].Volume)

\* C6: the trend of an evaluated interval is Bull exactly when the last fast
\* EMA is above the last slow EMA and Bear otherwise, Bear in particular when
\* the two are equal; the result holds a trend and no crossover.
C6_TrendStrict ==
    (Evaluated /\ ~metrics.is_none) =>
        \E f \in {iloc_last(all_data[LastInter].EMA_F)} :
        \E s \in {iloc_last(all_data[LastInter].EMA_S)} :
            /\ metrics.trend = "Bull" <=> EmaGreater(f, s)
            /\ metrics.trend = "Bear" <=> ~EmaGreater(f, s)
            /\ EmaEq(f, s) => metrics.trend = "Bear"
            /\ DOMAIN metrics = {"is_none", "curr_p_chg", "curr_v_chg",
                                 "avg_p_chg", "avg_v_chg", "last_close",
                                 "trend"}

\* an interval whose fast and slow EMA end equal was evaluated: trend Bear
C6_Witness ==
    /\ Evaluated
    /\ ~metrics.is_none
    /\ EmaEq(iloc_last(all_data[LastInter].EMA_F),
             iloc_last(all_data[LastInter].EMA_S))
    /\ metrics.trend = "Bear"

RECURSIVE RecursiveEma(_, _, _)
\* ema[1] = close[1]; ema[r] = alpha*close[r] + (1-alpha)*ema[r-1] with
\* alpha = 2/(span+1)
RecursiveEma(x, r, span) ==
    IF r = 1 THEN EmaVal(BigOfInt(x[1]), BigOfInt(1))
    ELSE LET prev == RecursiveEma(x, r - 1, span)
         IN  EmaVal(BigAdd(BigMulSmall(prev.D, 2 * x[r]),
                           BigMulSmall(prev.N, span - 1)),
                    BigMulSmall(prev.D, span + 1))

\* C7: the EMA drawn for the 5m frame is the non-adjusted recursion seeded
\* with the first close, at every row.
C7_EmaIsNonAdjustedRecursion ==
    (pc \in {"table", "sleep"} /\ chart.pass = passNo) =>
        \A r \in 1..Len(chart.ema) :
            EmaEq(chart.ema[r], RecursiveEma(fetched["5m"].Close, r, ema_fast))

\* C8: the interval columns on screen are always those of one single pass.
C8_SnapshotAtomic ==
    \A a, b \in Intervals : screen[a].pass = screen[b].pass

\* C9: a pass starts 60 seconds after the previous one started when that
\* one took less than 60 seconds, and right when it ended otherwise.
C9_TickFromPassStart ==
    passNo > 1 => gap = (IF dur < 60 THEN 60 ELSE dur)

\* C10: the frames of the intervals evaluated so far are as they were
\* fetched.
C10_SeriesUnchanged ==
    pc \in {"eval", "chart"} =>
        \A k \in 1..i : all_data[intervals[k]] = fetched[intervals[k]]

====
